---- MODULE Spec2Model ----
(***************************************************************************)
(* A model of the LruCache of es6-lru-cache: the linked-list variant       *)
(* (a Map from key to [value, keyIndex] and an array `keys` of triplets    *)
(* prev/key/next that forms a doubly linked list by index).                *)
(***************************************************************************)
EXTENDS Integers, Sequences, FiniteSets, TLC

\* ------------------------------------------------------------------ bounds
\* Capacities 1..MaxCap are constructed; keys are 0..NKeys-1.
MaxCap == 3
NKeys == 4

Capacities == 1..MaxCap
Keys == 0..(NKeys - 1)
\* The fuzz steps run on capacities 1..FuzzCap and keys 0..FuzzKeys-1.
FuzzCap == 2
FuzzKeys == 4
\* The runs with overlapping calls have bounds of their own.
RaceCap == 2
RaceKeys == 3

\* JavaScript's undefined (an array hole, an omitted fallback).
Undefined == -2
\* The values a caller stores and the fallbacks a caller passes: undefined
\* (the default of optFallback, and a legitimate cached value) and one other.
Values == {Undefined, 1}
\* Stands for a call that ended in a thrown TypeError and returned nothing.
TypeError == -3

\* JavaScript's x >= 0 and x < 0 (both false for undefined).
Ge0(x) == x # Undefined /\ x >= 0
Lt0(x) == x # Undefined /\ x < 0

\* The operation codes of lru(key, action, value).
GET == 0
SET == 1
DEL == 2
HAS == 3
PEEK == 4

VARIABLES
  capacity,  \* constructor argument
  keys,      \* the triplet array: keys[i] prev, keys[i+1] key, keys[i+2] next
  map,       \* Map: key -> <<value, keyIndex>>
  head,      \* LRU index into keys, or -1
  tail,      \* MRU index into keys, or -1
  count,     \* count of keys stored in keys
  call,      \* the last call: its action code, key and argument
  result,    \* what the last call returned
  pre,       \* the closure state (and the order of last use) before the last call
  touched,   \* the live keys, the one set or found by get longest ago first
  latest,    \* for each live key, the value of its most recent set
  ref,       \* a capacity-less Map given the same set and delete calls
  lruMusts,  \* the keys of the last `capacity` set calls
  quiet,     \* the keys of lruMusts set after every get that found another key
  step,      \* position in the script of 'lru includes reads'
  readKey,   \* the key that script has read
  given,     \* the value `new LruCache` was called with
  made,      \* whether the constructor returned (FALSE: it threw)
  running,   \* per caller: the statement it is at and its local variables
  raced,     \* whether two calls have ever been in progress at once
  ring       \* the closure state of a lib/lru-cache.js cache, and its last result

cache == <<keys, map, head, tail, count>>
record == <<call, result, pre, touched, latest>>
script == <<step, readKey>>
vars == <<capacity, keys, map, head, tail, count, call, result, pre, touched,
          latest, ref, lruMusts, quiet, step, readKey, given, made,
          running, raced, ring>>

\* The closure state of one cache, as a record the helpers thread through.
State == [capacity |-> capacity, keys |-> keys, map |-> map,
          head |-> head, tail |-> tail, count |-> count]

\* j is an index of the keys array of s (a write elsewhere would grow the
\* JavaScript array; the module's own indices stay inside).
Put(a, j, x) == IF j \in DOMAIN a THEN [a EXCEPT ![j] = x] ELSE a

\* map.set(key, entry) and map.delete(key)
MapSet(m, key, entry) == [k \in (DOMAIN m) \cup {key} |-> IF k = key THEN entry ELSE m[k]]
MapDelete(m, key) == [k \in (DOMAIN m) \ {key} |-> m[k]]

\* usedEntry that inserts at the front (head) where it should insert at the end.
usedEntry_AtFront(s, i) ==
  LET prev == s.keys[i]
      next == s.keys[i + 2]
      head1 == IF s.head = i THEN next ELSE s.head
      tail1 == IF s.tail = i THEN prev ELSE s.tail
      k1 == IF Ge0(prev) THEN Put(s.keys, prev + 2, next) ELSE s.keys
      k2 == IF Ge0(next) THEN Put(k1, next, prev) ELSE k1
      k3 == Put(Put(k2, i, -1), i + 2, head1)
      tail2 == IF Lt0(tail1) THEN i ELSE tail1
      k4 == IF Lt0(tail1) THEN k3 ELSE Put(k3, head1, i)
  IN [s EXCEPT !.keys = k4, !.head = i, !.tail = tail2]

\* usedEntry without keys[next] = prev when it unlinks the slot.
usedEntry_NoBacklink(s, i) ==
  LET prev == s.keys[i]
      next == s.keys[i + 2]
      \* Unlink from list
      head1 == IF s.head = i THEN next ELSE s.head
      tail1 == IF s.tail = i THEN prev ELSE s.tail
      k1 == IF Ge0(prev) THEN Put(s.keys, prev + 2, next) ELSE s.keys
      k2 == k1
      \* Insert at end
      k3 == Put(Put(k2, i, tail1), i + 2, -1)
      head2 == IF Lt0(head1) THEN i ELSE head1
      k4 == IF Lt0(head1) THEN k3 ELSE Put(k3, tail1 + 2, i)
  IN [s EXCEPT !.keys = k4, !.head = head2, !.tail = i]

\* usedEntry without `if (tail === i) tail = prev`.
usedEntry_KeepsTail(s, i) ==
  LET prev == s.keys[i]
      next == s.keys[i + 2]
      \* Unlink from list
      head1 == IF s.head = i THEN next ELSE s.head
      tail1 == s.tail
      k1 == IF Ge0(prev) THEN Put(s.keys, prev + 2, next) ELSE s.keys
      k2 == IF Ge0(next) THEN Put(k1, next, prev) ELSE k1
      \* Insert at end
      k3 == Put(Put(k2, i, tail1), i + 2, -1)
      head2 == IF Lt0(head1) THEN i ELSE head1
      k4 == IF Lt0(head1) THEN k3 ELSE Put(k3, tail1 + 2, i)
  IN [s EXCEPT !.keys = k4, !.head = head2, !.tail = i]

usedEntry(s, i) ==
  LET prev == s.keys[i]
      next == s.keys[i + 2]
      \* Unlink from list
      head1 == IF s.head = i THEN next ELSE s.head
      tail1 == IF s.tail = i THEN prev ELSE s.tail
      k1 == IF Ge0(prev) THEN Put(s.keys, prev + 2, next) ELSE s.keys
      k2 == IF Ge0(next) THEN Put(k1, next, prev) ELSE k1
      \* Insert at end
      k3 == Put(Put(k2, i, tail1), i + 2, -1)
      head2 == IF Lt0(head1) THEN i ELSE head1
      k4 == IF Lt0(head1) THEN k3 ELSE Put(k3, tail1 + 2, i)
  IN [s EXCEPT !.keys = k4, !.head = head2, !.tail = i]

\* newEntry with the eviction taken from the wrong end of the list (tail).
newEntry_EvictsTail(s, key) ==
  LET evict == s.count = s.capacity
      freeIndex == IF evict THEN s.tail ELSE s.count * 3
      tail1 == IF evict THEN s.keys[s.tail] ELSE s.tail
      head1 == IF evict /\ Lt0(tail1) THEN -1 ELSE s.head
      k1 == IF evict /\ ~Lt0(tail1) THEN Put(s.keys, tail1 + 2, -1) ELSE s.keys
      map1 == IF evict THEN MapDelete(s.map, s.keys[freeIndex + 1]) ELSE s.map
      count1 == IF evict THEN s.count ELSE s.count + 1
      k2 == Put(Put(Put(k1, freeIndex, -1), freeIndex + 1, key), freeIndex + 2, -1)
  IN [st |-> [s EXCEPT !.keys = k2, !.map = map1, !.head = head1,
                       !.tail = tail1, !.count = count1],
      freeIndex |-> freeIndex]

\* newEntry without map.delete of the evicted key.
newEntry_KeepsEvicted(s, key) ==
  LET evict == s.count = s.capacity
      freeIndex == IF evict THEN s.head ELSE s.count * 3
      head1 == IF evict THEN s.keys[s.head + 2] ELSE s.head
      tail1 == IF evict /\ Lt0(head1) THEN -1 ELSE s.tail
      k1 == IF evict /\ ~Lt0(head1) THEN Put(s.keys, head1, -1) ELSE s.keys
      count1 == IF evict THEN s.count ELSE s.count + 1
      k2 == Put(Put(Put(k1, freeIndex, -1), freeIndex + 1, key), freeIndex + 2, -1)
  IN [st |-> [s EXCEPT !.keys = k2, !.head = head1,
                       !.tail = tail1, !.count = count1],
      freeIndex |-> freeIndex]

\* newEntry with map.delete given the key of the tail slot, while the head
\* slot is the one reused.
newEntry_DeletesTailKey(s, key) ==
  LET evict == s.count = s.capacity
      freeIndex == IF evict THEN s.head ELSE s.count * 3
      head1 == IF evict THEN s.keys[s.head + 2] ELSE s.head
      tail1 == IF evict /\ Lt0(head1) THEN -1 ELSE s.tail
      k1 == IF evict /\ ~Lt0(head1) THEN Put(s.keys, head1, -1) ELSE s.keys
      map1 == IF evict THEN MapDelete(s.map, s.keys[s.tail + 1]) ELSE s.map
      count1 == IF evict THEN s.count ELSE s.count + 1
      k2 == Put(Put(Put(k1, freeIndex, -1), freeIndex + 1, key), freeIndex + 2, -1)
  IN [st |-> [s EXCEPT !.keys = k2, !.map = map1, !.head = head1,
                       !.tail = tail1, !.count = count1],
      freeIndex |-> freeIndex]

\* newEntry with ++count on the eviction path too.
newEntry_CountsEviction(s, key) ==
  LET evict == s.count = s.capacity
      freeIndex == IF evict THEN s.head ELSE s.count * 3
      head1 == IF evict THEN s.keys[s.head + 2] ELSE s.head
      tail1 == IF evict /\ Lt0(head1) THEN -1 ELSE s.tail
      k1 == IF evict /\ ~Lt0(head1) THEN Put(s.keys, head1, -1) ELSE s.keys
      map1 == IF evict THEN MapDelete(s.map, s.keys[freeIndex + 1]) ELSE s.map
      count1 == s.count + 1
      k2 == Put(Put(Put(k1, freeIndex, -1), freeIndex + 1, key), freeIndex + 2, -1)
  IN [st |-> [s EXCEPT !.keys = k2, !.map = map1, !.head = head1,
                       !.tail = tail1, !.count = count1],
      freeIndex |-> freeIndex]

\* newEntry returns [null, freeIndex]; here the state after it and freeIndex.
newEntry(s, key) ==
  LET evict == s.count = s.capacity
      freeIndex == IF evict THEN s.head ELSE s.count * 3
      head1 == IF evict THEN s.keys[s.head + 2] ELSE s.head
      tail1 == IF evict /\ Lt0(head1) THEN -1 ELSE s.tail
      k1 == IF evict /\ ~Lt0(head1) THEN Put(s.keys, head1, -1) ELSE s.keys
      map1 == IF evict THEN MapDelete(s.map, s.keys[freeIndex + 1]) ELSE s.map
      count1 == IF evict THEN s.count ELSE s.count + 1
      k2 == Put(Put(Put(k1, freeIndex, -1), freeIndex + 1, key), freeIndex + 2, -1)
  IN [st |-> [s EXCEPT !.keys = k2, !.map = map1, !.head = head1,
                       !.tail = tail1, !.count = count1],
      freeIndex |-> freeIndex]

\* `shiftedEntry[1] = keyIndex` throws a TypeError when the map has no entry
\* for the key in the last live slot (shiftedEntry is then undefined).
unlinkThrows(s, key) ==
  LET nextFreeIndex == (s.count - 1) * 3
      keyIndex == s.map[key][2]
  IN /\ keyIndex # nextFreeIndex
     /\ s.keys[nextFreeIndex + 1] \notin DOMAIN s.map

\* unlinkEntry without shiftedEntry[1] = keyIndex: the entry of the key moved
\* into the freed slot keeps its old index.
unlinkEntry_StaleIndex(s, key) ==
  LET count1 == s.count - 1
      nextFreeIndex == count1 * 3
      keyIndex == s.map[key][2]
      prev == s.keys[keyIndex]
      next == s.keys[keyIndex + 2]
      k1 == IF Ge0(prev) THEN Put(s.keys, prev + 2, next) ELSE s.keys
      head1 == IF Ge0(prev) THEN s.head ELSE next
      k2 == IF Ge0(next) THEN Put(k1, next, prev) ELSE k1
      tail1 == IF Ge0(next) THEN s.tail ELSE prev
      k3 == Put(Put(k2, keyIndex, -1), keyIndex + 2, -1)
      shift == keyIndex # nextFreeIndex
      shiftedKey == k3[nextFreeIndex + 1]
      shiftedPrev == k3[nextFreeIndex]
      shiftedNext == k3[nextFreeIndex + 2]
      map1 == s.map
      k4 == Put(Put(Put(k3, keyIndex, shiftedPrev), keyIndex + 1, shiftedKey),
                keyIndex + 2, shiftedNext)
      k5 == IF Ge0(shiftedPrev) THEN Put(k4, shiftedPrev + 2, keyIndex) ELSE k4
      head2 == IF Ge0(shiftedPrev) THEN head1 ELSE keyIndex
      k6 == IF Ge0(shiftedNext) THEN Put(k5, shiftedNext, keyIndex) ELSE k5
      tail2 == IF Ge0(shiftedNext) THEN tail1 ELSE keyIndex
      \* Release the key for GC.
      k7 == Put(k6, nextFreeIndex + 1, Undefined)
      \* entry[1] = -1 on the entry that cacheDel then drops from the map
      map2 == IF key \in DOMAIN map1 THEN [map1 EXCEPT ![key][2] = -1] ELSE map1
  IN IF unlinkThrows(s, key)
     THEN [s EXCEPT !.keys = k3, !.head = head1, !.tail = tail1,
                    !.count = count1]
     ELSE IF shift
     THEN [s EXCEPT !.keys = k7, !.map = map2, !.head = head2,
                    !.tail = tail2, !.count = count1]
     ELSE [s EXCEPT !.keys = k3, !.map = map2, !.head = head1,
                    !.tail = tail1, !.count = count1]

\* unlinkEntry without `tail = prev` when the unlinked slot has no next.
unlinkEntry_KeepsTail(s, key) ==
  LET count1 == s.count - 1
      nextFreeIndex == count1 * 3
      keyIndex == s.map[key][2]
      prev == s.keys[keyIndex]
      next == s.keys[keyIndex + 2]
      k1 == IF Ge0(prev) THEN Put(s.keys, prev + 2, next) ELSE s.keys
      head1 == IF Ge0(prev) THEN s.head ELSE next
      k2 == IF Ge0(next) THEN Put(k1, next, prev) ELSE k1
      tail1 == s.tail
      k3 == Put(Put(k2, keyIndex, -1), keyIndex + 2, -1)
      shift == keyIndex # nextFreeIndex
      shiftedKey == k3[nextFreeIndex + 1]
      shiftedPrev == k3[nextFreeIndex]
      shiftedNext == k3[nextFreeIndex + 2]
      map1 == IF shift /\ shiftedKey \in DOMAIN s.map
              THEN [s.map EXCEPT ![shiftedKey][2] = keyIndex] ELSE s.map
      k4 == Put(Put(Put(k3, keyIndex, shiftedPrev), keyIndex + 1, shiftedKey),
                keyIndex + 2, shiftedNext)
      k5 == IF Ge0(shiftedPrev) THEN Put(k4, shiftedPrev + 2, keyIndex) ELSE k4
      head2 == IF Ge0(shiftedPrev) THEN head1 ELSE keyIndex
      k6 == IF Ge0(shiftedNext) THEN Put(k5, shiftedNext, keyIndex) ELSE k5
      tail2 == IF Ge0(shiftedNext) THEN tail1 ELSE keyIndex
      \* Release the key for GC.
      k7 == Put(k6, nextFreeIndex + 1, Undefined)
      \* entry[1] = -1 on the entry that cacheDel then drops from the map
      map2 == IF key \in DOMAIN map1 THEN [map1 EXCEPT ![key][2] = -1] ELSE map1
  IN IF unlinkThrows(s, key)
     THEN [s EXCEPT !.keys = k3, !.head = head1, !.tail = tail1,
                    !.count = count1]
     ELSE IF shift
     THEN [s EXCEPT !.keys = k7, !.map = map2, !.head = head2,
                    !.tail = tail2, !.count = count1]
     ELSE [s EXCEPT !.keys = k3, !.map = map2, !.head = head1,
                    !.tail = tail1, !.count = count1]

\* unlinkEntry without the block under if (keyIndex !== nextFreeIndex): the
\* freed slot is left as a gap below the last live slot.
unlinkEntry_NoCompaction(s, key) ==
  LET count1 == s.count - 1
      nextFreeIndex == count1 * 3
      keyIndex == s.map[key][2]
      prev == s.keys[keyIndex]
      next == s.keys[keyIndex + 2]
      k1 == IF Ge0(prev) THEN Put(s.keys, prev + 2, next) ELSE s.keys
      head1 == IF Ge0(prev) THEN s.head ELSE next
      k2 == IF Ge0(next) THEN Put(k1, next, prev) ELSE k1
      tail1 == IF Ge0(next) THEN s.tail ELSE prev
      k3 == Put(Put(k2, keyIndex, -1), keyIndex + 2, -1)
      shift == FALSE
      shiftedKey == k3[nextFreeIndex + 1]
      shiftedPrev == k3[nextFreeIndex]
      shiftedNext == k3[nextFreeIndex + 2]
      map1 == IF shift /\ shiftedKey \in DOMAIN s.map
              THEN [s.map EXCEPT ![shiftedKey][2] = keyIndex] ELSE s.map
      k4 == Put(Put(Put(k3, keyIndex, shiftedPrev), keyIndex + 1, shiftedKey),
                keyIndex + 2, shiftedNext)
      k5 == IF Ge0(shiftedPrev) THEN Put(k4, shiftedPrev + 2, keyIndex) ELSE k4
      head2 == IF Ge0(shiftedPrev) THEN head1 ELSE keyIndex
      k6 == IF Ge0(shiftedNext) THEN Put(k5, shiftedNext, keyIndex) ELSE k5
      tail2 == IF Ge0(shiftedNext) THEN tail1 ELSE keyIndex
      \* Release the key for GC.
      k7 == Put(k6, nextFreeIndex + 1, Undefined)
      \* entry[1] = -1 on the entry that cacheDel then drops from the map
      map2 == IF key \in DOMAIN map1 THEN [map1 EXCEPT ![key][2] = -1] ELSE map1
  IN IF unlinkThrows(s, key)
     THEN [s EXCEPT !.keys = k3, !.head = head1, !.tail = tail1,
                    !.count = count1]
     ELSE IF shift
     THEN [s EXCEPT !.keys = k7, !.map = map2, !.head = head2,
                    !.tail = tail2, !.count = count1]
     ELSE [s EXCEPT !.keys = k3, !.map = map2, !.head = head1,
                    !.tail = tail1, !.count = count1]

\* unlinkEntry reading shiftedPrev and shiftedNext ahead of the unlinking of
\* keyIndex, where it should read them after it.
unlinkEntry_EarlyShifted(s, key) ==
  LET count1 == s.count - 1
      nextFreeIndex == count1 * 3
      keyIndex == s.map[key][2]
      prev == s.keys[keyIndex]
      next == s.keys[keyIndex + 2]
      k1 == IF Ge0(prev) THEN Put(s.keys, prev + 2, next) ELSE s.keys
      head1 == IF Ge0(prev) THEN s.head ELSE next
      k2 == IF Ge0(next) THEN Put(k1, next, prev) ELSE k1
      tail1 == IF Ge0(next) THEN s.tail ELSE prev
      k3 == Put(Put(k2, keyIndex, -1), keyIndex + 2, -1)
      shift == keyIndex # nextFreeIndex
      shiftedKey == k3[nextFreeIndex + 1]
      shiftedPrev == s.keys[nextFreeIndex]
      shiftedNext == s.keys[nextFreeIndex + 2]
      map1 == IF shift /\ shiftedKey \in DOMAIN s.map
              THEN [s.map EXCEPT ![shiftedKey][2] = keyIndex] ELSE s.map
      k4 == Put(Put(Put(k3, keyIndex, shiftedPrev), keyIndex + 1, shiftedKey),
                keyIndex + 2, shiftedNext)
      k5 == IF Ge0(shiftedPrev) THEN Put(k4, shiftedPrev + 2, keyIndex) ELSE k4
      head2 == IF Ge0(shiftedPrev) THEN head1 ELSE keyIndex
      k6 == IF Ge0(shiftedNext) THEN Put(k5, shiftedNext, keyIndex) ELSE k5
      tail2 == IF Ge0(shiftedNext) THEN tail1 ELSE keyIndex
      \* Release the key for GC.
      k7 == Put(k6, nextFreeIndex + 1, Undefined)
      \* entry[1] = -1 on the entry that cacheDel then drops from the map
      map2 == IF key \in DOMAIN map1 THEN [map1 EXCEPT ![key][2] = -1] ELSE map1
  IN IF unlinkThrows(s, key)
     THEN [s EXCEPT !.keys = k3, !.head = head1, !.tail = tail1,
                    !.count = count1]
     ELSE IF shift
     THEN [s EXCEPT !.keys = k7, !.map = map2, !.head = head2,
                    !.tail = tail2, !.count = count1]
     ELSE [s EXCEPT !.keys = k3, !.map = map2, !.head = head1,
                    !.tail = tail1, !.count = count1]

\* The closure state after unlinkEntry(map.get(key)), or the state it leaves
\* behind when it throws.
unlinkEntry(s, key) ==
  LET count1 == s.count - 1
      nextFreeIndex == count1 * 3
      keyIndex == s.map[key][2]
      prev == s.keys[keyIndex]
      next == s.keys[keyIndex + 2]
      k1 == IF Ge0(prev) THEN Put(s.keys, prev + 2, next) ELSE s.keys
      head1 == IF Ge0(prev) THEN s.head ELSE next
      k2 == IF Ge0(next) THEN Put(k1, next, prev) ELSE k1
      tail1 == IF Ge0(next) THEN s.tail ELSE prev
      k3 == Put(Put(k2, keyIndex, -1), keyIndex + 2, -1)
      shift == keyIndex # nextFreeIndex
      shiftedKey == k3[nextFreeIndex + 1]
      shiftedPrev == k3[nextFreeIndex]
      shiftedNext == k3[nextFreeIndex + 2]
      map1 == IF shift /\ shiftedKey \in DOMAIN s.map
              THEN [s.map EXCEPT ![shiftedKey][2] = keyIndex] ELSE s.map
      k4 == Put(Put(Put(k3, keyIndex, shiftedPrev), keyIndex + 1, shiftedKey),
                keyIndex + 2, shiftedNext)
      k5 == IF Ge0(shiftedPrev) THEN Put(k4, shiftedPrev + 2, keyIndex) ELSE k4
      head2 == IF Ge0(shiftedPrev) THEN head1 ELSE keyIndex
      k6 == IF Ge0(shiftedNext) THEN Put(k5, shiftedNext, keyIndex) ELSE k5
      tail2 == IF Ge0(shiftedNext) THEN tail1 ELSE keyIndex
      \* Release the key for GC.
      k7 == Put(k6, nextFreeIndex + 1, Undefined)
      \* entry[1] = -1 on the entry that cacheDel then drops from the map
      map2 == IF key \in DOMAIN map1 THEN [map1 EXCEPT ![key][2] = -1] ELSE map1
  IN IF unlinkThrows(s, key)
     THEN [s EXCEPT !.keys = k3, !.head = head1, !.tail = tail1,
                    !.count = count1]
     ELSE IF shift
     THEN [s EXCEPT !.keys = k7, !.map = map2, !.head = head2,
                    !.tail = tail2, !.count = count1]
     ELSE [s EXCEPT !.keys = k3, !.map = map2, !.head = head1,
                    !.tail = tail1, !.count = count1]

\* cacheGet without usedEntry: a read that does not refresh.
cacheGet_NoTouch(s, key, value) ==
  [st |-> s, ret |-> IF key \in DOMAIN s.map THEN s.map[key][1] ELSE value]

\* Each cacheX gives the state after the call and the value returned.
cacheGet(s, key, value) ==
  IF key \in DOMAIN s.map
  THEN [st |-> usedEntry(s, s.map[key][2]), ret |-> s.map[key][1]]
  ELSE [st |-> s, ret |-> value]

\* cachePeek with cacheGet's usedEntry.
cachePeek_Touches(s, key, value) ==
  IF key \in DOMAIN s.map
  THEN [st |-> usedEntry(s, s.map[key][2]), ret |-> s.map[key][1]]
  ELSE [st |-> s, ret |-> value]

cachePeek(s, key, value) ==
  [st |-> s, ret |-> IF key \in DOMAIN s.map THEN s.map[key][1] ELSE value]

\* cacheSet that takes a new entry also when the cache is full:
\* if (!entry || count === capacity).
cacheSet_EvictsWhenFull(s, key, value) ==
  LET fresh == newEntry(s, key)
      s1 == IF key \in DOMAIN s.map /\ s.count # s.capacity THEN s
            ELSE [fresh.st EXCEPT !.map = MapSet(fresh.st.map, key, <<Undefined, fresh.freeIndex>>)]
      s2 == [s1 EXCEPT !.map[key][1] = value]
  IN [st |-> usedEntry(s2, s2.map[key][2]), ret |-> value]

\* cacheSet with usedEntry inside if (!entry): an overwrite does not refresh.
cacheSet_SkipsUsed(s, key, value) ==
  LET fresh == newEntry(s, key)
      s1 == [fresh.st EXCEPT !.map = MapSet(fresh.st.map, key, <<value, fresh.freeIndex>>)]
  IN IF key \in DOMAIN s.map
     THEN [st |-> [s EXCEPT !.map[key][1] = value], ret |-> value]
     ELSE [st |-> usedEntry(s1, fresh.freeIndex), ret |-> value]

\* cacheSet with entry[0] = value inside if (!entry): an overwrite keeps the
\* old value.
cacheSet_KeepsOldValue(s, key, value) ==
  LET fresh == newEntry(s, key)
      s1 == IF key \in DOMAIN s.map THEN s
            ELSE [fresh.st EXCEPT !.map = MapSet(fresh.st.map, key, <<value, fresh.freeIndex>>)]
  IN [st |-> usedEntry(s1, s1.map[key][2]), ret |-> value]

cacheSet(s, key, value) ==
  LET fresh == newEntry(s, key)
      s1 == IF key \in DOMAIN s.map THEN s
            ELSE [fresh.st EXCEPT !.map = MapSet(fresh.st.map, key, <<Undefined, fresh.freeIndex>>)]
      s2 == [s1 EXCEPT !.map[key][1] = value]
  IN [st |-> usedEntry(s2, s2.map[key][2]), ret |-> value]

\* cacheDel without map.delete(key).
cacheDel_KeepsEntry(s, key, value) ==
  IF key \notin DOMAIN s.map
  THEN [st |-> s, ret |-> value]
  ELSE [st |-> unlinkEntry(s, key), ret |-> s.map[key][1]]

\* cacheDel returning its second argument where it should return entry[0].
cacheDel_ReturnsFallback(s, key, value) ==
  IF key \notin DOMAIN s.map
  THEN [st |-> s, ret |-> value]
  ELSE LET u == unlinkEntry(s, key)
       IN [st |-> [u EXCEPT !.map = MapDelete(u.map, key)], ret |-> value]

\* cacheDel with --count ahead of the test for a missing entry.
cacheDel_CountsDown(s, key, value) ==
  IF key \notin DOMAIN s.map
  THEN [st |-> [s EXCEPT !.count = s.count - 1], ret |-> value]
  ELSE LET u == unlinkEntry(s, key)
       IN [st |-> [u EXCEPT !.map = MapDelete(u.map, key)], ret |-> s.map[key][1]]

cacheDel(s, key, value) ==
  IF key \notin DOMAIN s.map
  THEN [st |-> s, ret |-> value]
  ELSE IF unlinkThrows(s, key)
  THEN [st |-> unlinkEntry(s, key), ret |-> TypeError]
  ELSE LET u == unlinkEntry(s, key)
       IN [st |-> [u EXCEPT !.map = MapDelete(u.map, key)], ret |-> s.map[key][1]]

\* cacheHas that takes an entry whose stored value is undefined for no entry.
cacheHas_ByValue(s, key, value) ==
  [st |-> s,
   ret |-> key \in DOMAIN s.map /\ s.map[key][1] # Undefined]

cacheHas(s, key, value) ==
  [st |-> s, ret |-> key \in DOMAIN s.map]

\* actions[action](key, value)
lru(s, key, action, value) ==
  CASE action = GET -> cacheGet(s, key, value)
    [] action = SET -> cacheSet(s, key, value)
    [] action = DEL -> cacheDel(s, key, value)
    [] action = HAS -> cacheHas(s, key, value)
    [] action = PEEK -> cachePeek(s, key, value)

\* ------------------------------------- the circular buffer, lib/lru-cache.js
\* `hole`: the placeholder for a key that was deleted.
Hole == -4

\* a % n as JavaScript computes it: the sign is that of a.
JsRem(a, n) == IF a >= 0 THEN a % n ELSE -((-a) % n)

\* The closure state after the constructor: keys has `capacity` cells.
ringConstructor(c) ==
  [capacity |-> c, keys |-> [j \in 0..(c - 1) |-> Undefined], pos |-> 0,
   count |-> 0, map |-> <<>>, ret |-> Undefined]
NoRing == [capacity |-> 0, keys |-> <<>>, pos |-> 0, count |-> 0, map |-> <<>>,
           ret |-> Undefined]

\* The loop of maybeCoalesce.
RECURSIVE Coalesce(_, _)
Coalesce(r, lastIndex) ==
  IF r.count # 0 /\ lastIndex \in DOMAIN r.keys /\ r.keys[lastIndex] = Hole
  THEN Coalesce([r EXCEPT !.count = r.count - 1],
                (IF lastIndex = 0 THEN r.capacity ELSE lastIndex) - 1)
  ELSE r

maybeCoalesce(r) ==
  LET c == Coalesce(r, JsRem(r.pos + r.count - 1, r.capacity))
  IN IF c.count = 0 THEN [c EXCEPT !.pos = 0] ELSE c

maybeEvict(r) ==
  IF r.count = r.capacity
  THEN LET toEvict == r.keys[r.pos]
           map1 == IF toEvict # Hole THEN MapDelete(r.map, toEvict) ELSE r.map
       IN maybeCoalesce([r EXCEPT !.map = map1,
                                  !.keys = Put(r.keys, r.pos, Hole),
                                  !.pos = (r.pos + 1) % r.capacity])
  ELSE r

\* cacheGet, cacheSet, cacheDel and cacheHas of lib/lru-cache.js, with
\* entry = map.get(key) as lru passes it; ret is what the call returns.
ringGet(r, key, value) ==
  [r EXCEPT !.ret = IF key \in DOMAIN r.map THEN r.map[key][1] ELSE value]

\* cacheSet with maybeEvict only for a key that has no entry.
ringSet_KeepsOnOverwrite(r, key, value) ==
  LET r1 == IF key \in DOMAIN r.map
            THEN [r EXCEPT !.keys = Put(r.keys, r.map[key][2], Hole)] ELSE r
      r2 == IF key \in DOMAIN r.map THEN r1 ELSE maybeEvict(r1)
      limit == (r2.pos + r2.count) % r2.capacity
  IN [r2 EXCEPT !.keys = Put(r2.keys, limit, key),
                !.count = r2.count + 1,
                !.map = MapSet(r2.map, key, <<value, limit>>),
                !.ret = value]

\* cacheSet that leaves the old cell of an overwritten key as it is.
ringSet_NoHole(r, key, value) ==
  LET r2 == maybeEvict(r)
      limit == (r2.pos + r2.count) % r2.capacity
  IN [r2 EXCEPT !.keys = Put(r2.keys, limit, key),
                !.count = r2.count + 1,
                !.map = MapSet(r2.map, key, <<value, limit>>),
                !.ret = value]

ringSet(r, key, value) ==
  LET r1 == IF key \in DOMAIN r.map
            THEN [r EXCEPT !.keys = Put(r.keys, r.map[key][2], Hole)] ELSE r
      r2 == maybeEvict(r1)
      limit == (r2.pos + r2.count) % r2.capacity
  IN [r2 EXCEPT !.keys = Put(r2.keys, limit, key),
                !.count = r2.count + 1,
                !.map = MapSet(r2.map, key, <<value, limit>>),
                !.ret = value]

ringDel(r, key, value) ==
  IF key \notin DOMAIN r.map
  THEN [r EXCEPT !.ret = value]
  ELSE [maybeCoalesce([r EXCEPT !.map = MapDelete(r.map, key),
                                !.keys = Put(r.keys, r.map[key][2], Hole)])
          EXCEPT !.ret = r.map[key][1]]

ringHas(r, key, value) ==
  [r EXCEPT !.ret = key \in DOMAIN r.map]

\* actions[action](key, map.get(key), value)
ringLru(r, key, action, value) ==
  CASE action = GET -> ringGet(r, key, value)
    [] action = SET -> ringSet(r, key, value)
    [] action = DEL -> ringDel(r, key, value)
    [] action = HAS -> ringHas(r, key, value)

\* ------------------------------------------------------------ observation
\* The keys of the list read from index i along next, at most n of them.
RECURSIVE Chain(_, _, _)
Chain(ks, i, n) ==
  IF n = 0 \/ ~Ge0(i) \/ (i + 2) \notin DOMAIN ks THEN <<>>
  ELSE <<ks[i + 1]>> \o Chain(ks, ks[i + 2], n - 1)

\* The keys from LRU (head) to MRU (tail).
ChainKeys == Chain(keys, head, count)

\* The slot indices met from slot i by following next, n at most.
RECURSIVE Slots(_, _, _)
Slots(ks, i, n) ==
  IF n = 0 \/ i \notin DOMAIN ks \/ (i + 2) \notin DOMAIN ks THEN <<>>
  ELSE <<i>> \o Slots(ks, ks[i + 2], n - 1)

\* The keys met from slot i by following prev, n at most.
RECURSIVE ChainBack(_, _, _)
ChainBack(ks, i, n) ==
  IF n = 0 \/ ~Ge0(i) \/ (i + 2) \notin DOMAIN ks THEN <<>>
  ELSE <<ks[i + 1]>> \o ChainBack(ks, ks[i], n - 1)

Reverse(q) == [j \in 1..Len(q) |-> q[Len(q) + 1 - j]]

Range(q) == {q[j] : j \in DOMAIN q}
Without(q, key) == SelectSeq(q, LAMBDA x : x # key)

\* ------------------------------------------------------------- the machine
\* JavaScript values a caller may pass as the capacity: a finite number is
\* the fraction num/den in lowest terms, den > 0 (3 * (num/den) computed in
\* doubles is the exact product for the fractions used here: (1/3) * 3 === 1).
Num(n) == [kind |-> "number", num |-> n, den |-> 1]
Frac(n, d) == [kind |-> "number", num |-> n, den |-> d]
NaN == [kind |-> "NaN", num |-> 0, den |-> 1]
Infinity == [kind |-> "Infinity", num |-> 1, den |-> 1]
MinusInfinity == [kind |-> "Infinity", num |-> -1, den |-> 1]
EmptyObject == [kind |-> "object", num |-> 0, den |-> 1]
Foo == [kind |-> "string", num |-> 0, den |-> 1]

\* ToNumber({}) and ToNumber('foo') are NaN.
ToNumber(a) == IF a.kind \in {"object", "string"} THEN NaN ELSE a

\* a * n for a positive integer n
Times(a, n) ==
  LET x == ToNumber(a)
  IN IF x.kind = "number" THEN [x EXCEPT !.num = n * x.num] ELSE x

\* a > 0
GreaterThanZero(a) ==
  LET x == ToNumber(a)
  IN x.kind \in {"number", "Infinity"} /\ x.num > 0

\* `keys.length = x` throws a RangeError unless x is an integer in 0..2^32-1
\* (every number used here is below the upper limit).
IsArrayLength(x) ==
  /\ x.kind = "number"
  /\ x.num % x.den = 0
  /\ x.num \div x.den >= 0

\* The capacity as the closure holds it: an integer as itself, any other
\* value as given.
Held(a) == IF a.kind = "number" /\ a.den = 1 THEN a.num ELSE a

\* new LruCache(c) for a positive integer c: an array of c * 3 holes, an empty
\* map, head = tail = -1.
constructor(c) ==
  /\ given = Num(c)
  /\ made = TRUE
  /\ capacity = c
  /\ keys = [j \in 0..(c * 3 - 1) |-> Undefined]
  /\ map = <<>>
  /\ head = -1
  /\ tail = -1
  /\ count = 0

\* new LruCache(a) for any value a: the assignment to keys.length throws, or
\* the check after it throws, or the closure is set up.
Holes(n) == [j \in 0..(n - 1) |-> Undefined]
Throws(a) ==
  \/ ~IsArrayLength(Times(a, 3))
  \/ ~(GreaterThanZero(a) /\ IsArrayLength(Times(a, 3)))

NewLruCache(a) ==
  IF Throws(a)
    THEN /\ given = a
         /\ made = FALSE
         /\ capacity = Held(a)
         /\ keys = IF IsArrayLength(Times(a, 3))
                     THEN Holes(Times(a, 3).num \div a.den) ELSE Holes(0)
         /\ map = <<>>
         /\ head = Undefined
         /\ tail = Undefined
         /\ count = Undefined
    ELSE IF a.den = 1
      THEN constructor(a.num)
      ELSE /\ given = a
           /\ made = TRUE
           /\ capacity = Held(a)
           /\ keys = Holes(Times(a, 3).num \div a.den)
           /\ map = <<>>
           /\ head = -1
           /\ tail = -1
           /\ count = 0

NoCall == [op |-> -1, key |-> -1, arg |-> Undefined]

\* Two callers, for the runs in which calls overlap; a caller that is in no
\* call holds nothing.
Callers == {1, 2}
Idle == [pc |-> "idle", key |-> -1, i |-> Undefined, prev |-> Undefined,
         next |-> Undefined, free |-> Undefined, sPrev |-> Undefined,
         sNext |-> Undefined]

Snapshot == [keys |-> keys, map |-> map, head |-> head, tail |-> tail,
             count |-> count, touched |-> touched]

Fresh ==
  /\ call = NoCall
  /\ result = Undefined
  /\ touched = <<>>
  /\ pre = Snapshot
  /\ latest = <<>>
  /\ ref = <<>>
  /\ lruMusts = <<>>
  /\ quiet = {}
  /\ step = 0
  /\ readKey = -1
  /\ running = [t \in Callers |-> Idle]
  /\ raced = FALSE
  /\ ring = IF made /\ given.kind = "number" /\ given.den = 1
            THEN ringConstructor(capacity) ELSE NoRing

Init == (\E c \in Capacities : constructor(c)) /\ Fresh

\* The closure state becomes st.
Become(st) ==
  /\ keys' = st.keys
  /\ map' = st.map
  /\ head' = st.head
  /\ tail' = st.tail
  /\ count' = st.count
  /\ UNCHANGED <<capacity, given, made>>
  /\ UNCHANGED <<running, raced, ring>>

\* The same call on the reference Map (SlowCache of the fuzz test).
Refer(key, action, value) ==
  ref' = CASE action = SET -> MapSet(ref, key, value)
           [] action = DEL -> MapDelete(ref, key)
           [] OTHER -> ref

\* The value most recently set for each key that is live after the call and
\* was not deleted since.
Latest(key, action, value) ==
  LET l == CASE action = SET -> MapSet(latest, key, value)
             [] action = DEL -> MapDelete(latest, key)
             [] OTHER -> latest
  IN latest' = [k \in (DOMAIN l) \cap (DOMAIN map') |-> l[k]]

\* The order of last use among the keys that are live after the call.
Touch(key, action) ==
  LET t == CASE action = SET \/ (action = GET /\ key \in DOMAIN map)
                  -> Append(Without(touched, key), key)
             [] action = DEL -> Without(touched, key)
             [] OTHER -> touched
  IN touched' = SelectSeq(t, LAMBDA x : x \in DOMAIN map')

\* The window of the fuzz test: the keys of the last `capacity` set calls.
Musts(key, action) ==
  lruMusts' = IF action = SET
              THEN (IF Len(lruMusts) >= capacity THEN Tail(lruMusts) ELSE lruMusts)
                   \o <<key>>
              ELSE lruMusts

\* The keys of the window set, and not deleted, after every get that found
\* another key.
Quiet(key, action) ==
  LET q == CASE action = SET -> quiet \cup {key}
             [] action = GET /\ key \in DOMAIN map -> quiet \cap {key}
             [] OTHER -> quiet
  IN quiet' = {k \in q : k \in Range(lruMusts') /\ k \in DOMAIN ref'}

\* One call of a public method: the closure state moves to the state after
\* the call; the call, its return value and the state it started from are
\* recorded until the caller is done with them (Return).
Call(key, action, value) ==
  /\ call = NoCall
  /\ \E r \in {lru(State, key, action, value)} :
     /\ Become(r.st)
     /\ result' = r.ret
     /\ call' = [op |-> action, key |-> key, arg |-> value]
     /\ pre' = Snapshot
     /\ Touch(key, action)
     /\ Latest(key, action, value)
     /\ UNCHANGED <<ref, lruMusts, quiet>>

get(key, optFallback) == Call(key, GET, optFallback)
peek(key, optFallback) == Call(key, PEEK, optFallback)
set(key, newValue) == Call(key, SET, newValue)
delete(key, optFallback) == Call(key, DEL, optFallback)
has(key) == Call(key, HAS, Undefined)

Get == \E k \in Keys, v \in Values : get(k, v) /\ UNCHANGED script
Peek == \E k \in Keys, v \in Values : peek(k, v) /\ UNCHANGED script
Set == \E k \in Keys, v \in Values : set(k, v) /\ UNCHANGED script
Delete == \E k \in Keys, v \in Values : delete(k, v) /\ UNCHANGED script
Has == \E k \in Keys : has(k) /\ UNCHANGED script

\* The caller has used what the call returned: the record of the call is
\* dropped, the closure state stays as the call left it.
Return ==
  /\ call # NoCall
  /\ call' = NoCall
  /\ result' = Undefined
  /\ pre' = Snapshot
  /\ UNCHANGED <<capacity, cache, touched, latest, ref, lruMusts, quiet, script>>
  /\ UNCHANGED <<given, made, running, raced, ring>>

Next == Get \/ Peek \/ Set \/ Delete \/ Has \/ Return

Spec == Init /\ [][Next]_vars

\* -------------------------------------------------- construction with any value
\* The values of 'incapacity', the capacities 1..MaxCap and some fractions.
Arguments ==
  {EmptyObject, Foo, Frac(201, 2), Num(-1), Num(0), NaN, Infinity, MinusInfinity}
    \cup {Num(c) : c \in Capacities}
    \cup {Frac(1, 2), Frac(1, 3), Frac(2, 3), Frac(3, 2)}

InitNew == (\E a \in Arguments : NewLruCache(a)) /\ Fresh

\* Calls need a cache object. (The calls on a cache made with a capacity that
\* is not an integer are left out: its keys array grows past the length it was
\* given, which Put does not follow.)
NextNew == made /\ given.den = 1 /\ Next

SpecNew == InitNew /\ [][NextNew]_vars

\* --------------------------------------------- the script 'lru includes reads'
\* new LruCache(4); set(0), set(1), set(2), set(3); one get of a key that is
\* present; then set(4), set(5), set(6), set(7), each a key never seen before.
ReadsCap == 4
ReadsLast == 7

InitReads == constructor(ReadsCap) /\ Fresh

Fill ==
  /\ step < ReadsCap
  /\ \E v \in Values : set(step, v)
  /\ step' = step + 1
  /\ UNCHANGED readKey

Read ==
  /\ step = ReadsCap
  /\ \E k \in 0..(ReadsCap - 1), v \in Values : get(k, v) /\ readKey' = k
  /\ step' = step + 1

Refill ==
  /\ step > ReadsCap
  /\ step <= ReadsLast + 1
  /\ \E v \in Values : set(step - 1, v)
  /\ step' = step + 1
  /\ UNCHANGED readKey

NextReads == Fill \/ Read \/ Refill \/ Return

SpecReads == InitReads /\ [][NextReads]_vars

\* ---------------------------------------------- the script 'explicit capacity'
\* new LruCache(c); then twice: set FillKeys distinct keys in order, with no
\* read in between, and delete every one of them.
FillKeys == MaxCap + 2
FillRounds == 2
FillPos == step % (2 * FillKeys)

Enter ==
  /\ step < FillRounds * 2 * FillKeys
  /\ FillPos < FillKeys
  /\ \E v \in Values : set(FillPos, v)
  /\ step' = step + 1
  /\ UNCHANGED readKey

Clear ==
  /\ step < FillRounds * 2 * FillKeys
  /\ FillPos >= FillKeys
  /\ \E v \in Values : delete(FillPos - FillKeys, v)
  /\ step' = step + 1
  /\ UNCHANGED readKey

NextFill == Enter \/ Clear \/ Return

SpecFill == Init /\ [][NextFill]_vars

\* ----------------------------------------------------- the fuzz test's steps
\* One step of the fuzz test: the call on the cache, the same call on the
\* reference Map, and the window of keys that must still be cached.
FuzzCall(key, action, value) ==
  \E r \in {lru(State, key, action, value)} :
     /\ Become(r.st)
     /\ Musts(key, action)
     /\ Refer(key, action, value)
     /\ Quiet(key, action)
     /\ UNCHANGED <<record, script>>

FuzzGet == \E k \in 0..(FuzzKeys - 1) : FuzzCall(k, GET, Undefined)
FuzzPeek == \E k \in 0..(FuzzKeys - 1) : FuzzCall(k, PEEK, Undefined)
FuzzSet == \E k \in 0..(FuzzKeys - 1), v \in Values : FuzzCall(k, SET, v)
FuzzDelete == \E k \in 0..(FuzzKeys - 1) : FuzzCall(k, DEL, Undefined)
FuzzHas == \E k \in 0..(FuzzKeys - 1) : FuzzCall(k, HAS, Undefined)

NextFuzz == FuzzGet \/ FuzzPeek \/ FuzzSet \/ FuzzDelete \/ FuzzHas

InitFuzz == (\E c \in 1..FuzzCap : constructor(c)) /\ Fresh

SpecFuzz == InitFuzz /\ [][NextFuzz]_vars

\* The fuzz test as written: its methods are peek, set, has and delete.
NextFuzzTest == FuzzPeek \/ FuzzSet \/ FuzzDelete \/ FuzzHas

SpecFuzzTest == InitFuzz /\ [][NextFuzzTest]_vars

\* SlowCache.peek and SlowCache.has of the fuzz test.
SlowPeek(key) == IF key \in DOMAIN ref THEN ref[key] ELSE Undefined
SlowHas(key) == key \in DOMAIN ref

\* ------------------------------------------------------------------ claims
\* What the recorded call started from.
PreState == [capacity |-> capacity, keys |-> pre.keys, map |-> pre.map,
             head |-> pre.head, tail |-> pre.tail, count |-> pre.count]
PreChain == Chain(pre.keys, pre.head, pre.count)
Hit == call.key \in DOMAIN pre.map
Removed == (DOMAIN pre.map) \ (DOMAIN map)
SameCache ==
  /\ keys = pre.keys
  /\ map = pre.map
  /\ head = pre.head
  /\ tail = pre.tail
  /\ count = pre.count
\* The keys for which has returns true.
LiveKeys == {k \in Keys : cacheHas(State, k, Undefined).ret}

\* C1: a set(k, v) removes another key iff k was absent and count = capacity
\* before the call; it then removes exactly one key, the live key whose most
\* recent set or successful get is the oldest, and never k itself. So while
\* count is below capacity, sets of new keys evict nothing.
C1_SetEvictsOnlyLru ==
  call.op = SET =>
    /\ (Removed # {}) <=> (~Hit /\ pre.count = capacity)
    /\ Removed # {} => (Len(pre.touched) > 0 /\ Removed = {pre.touched[1]})
    /\ call.key \notin Removed
    /\ (~Hit /\ pre.count < capacity) => count = pre.count + 1

\* A set of a new key into a full cache whose least recently used key did not
\* sit in the first slot.
C1_Witness ==
  /\ call.op = SET
  /\ ~Hit
  /\ pre.count = capacity
  /\ Removed # {}
  /\ \E k \in Removed : pre.map[k][2] # 0

\* C2: the number of live keys never exceeds capacity, and
\* 0 <= count <= capacity, in every reachable state.
C2_CapacityBound ==
  /\ Cardinality(LiveKeys) <= capacity
  /\ Cardinality(DOMAIN map) <= capacity
  /\ 0 <= count
  /\ count <= capacity

\* A new key has just been set into a full cache.
C2_Witness ==
  /\ call.op = SET
  /\ ~Hit
  /\ pre.count = capacity
  /\ Cardinality(LiveKeys) = capacity

\* C3: no key is ever mapped to a wrong value. Every live key holds the value
\* of its most recent set, which no delete of it has followed; a get or peek
\* that finds the key returns that value; and a key loses its value only by a
\* set or delete of that key or by the eviction a set of a new key into a
\* full cache performs.
C3_NoWrongValue ==
  /\ \A k \in DOMAIN map : k \in DOMAIN latest /\ map[k][1] = latest[k]
  /\ (call.op \in {GET, PEEK} /\ Hit) =>
        (call.key \in DOMAIN latest /\ result = latest[call.key])
  /\ \A k \in DOMAIN pre.map :
        (k \notin DOMAIN map \/ map[k][1] # pre.map[k][1]) =>
           \/ call.key = k /\ call.op \in {SET, DEL}
           \/ call.op = SET /\ ~Hit /\ pre.count = capacity /\ k \notin DOMAIN map

\* A get with the default fallback finds a key in a full cache of several
\* keys and returns the value stored for it.
C3_Witness ==
  /\ call.op = GET
  /\ Hit
  /\ call.arg = Undefined
  /\ result = 1
  /\ count = capacity
  /\ capacity > 1

\* The order of last use the script has built when it reads readKey, and the
\* keys expected from LRU to MRU once the script has reached position s.
ReadOrder == Append(Without([j \in 1..ReadsCap |-> j - 1], readKey), readKey)
ReadsExpected(s) ==
  SubSeq(ReadOrder, s - ReadsCap, ReadsCap) \o [j \in 1..(s - ReadsCap - 1) |-> ReadsCap - 1 + j]

\* C4: a successful get(k) makes k the most recently used key, so that of the
\* keys live at that moment k is the last one that sets of new keys evict.
\* With capacity 4 and keys 0,1,2,3 set in order, get(1) and then set(4)
\* evicts 0 and leaves {1,2,3,4}; the next sets of new keys evict 2, 3, then 1.
C4_ReadRefreshes ==
  /\ step > ReadsCap =>
       /\ ChainKeys = ReadsExpected(step)
       /\ DOMAIN map = Range(ReadsExpected(step))
  /\ (step = ReadsCap + 1 /\ call.op = GET) =>
       /\ result = pre.map[readKey][1]
       /\ map[readKey][2] = tail
  /\ (step > ReadsCap + 1 /\ step < ReadsLast + 2) => readKey \in DOMAIN map
  /\ (readKey = 1 /\ call.op = SET) =>
       /\ step = 6 => (Removed = {0} /\ DOMAIN map = {1, 2, 3, 4})
       /\ step = 7 => Removed = {2}
       /\ step = 8 => Removed = {3}
       /\ step = 9 => Removed = {1}

\* Key 1 was read and key 4 then set: 0 is gone and 1 is still there.
C4_Witness ==
  /\ step = ReadsCap + 2
  /\ readKey = 1
  /\ call.op = SET
  /\ call.key = 4
  /\ 1 \in DOMAIN map
  /\ 0 \notin DOMAIN map

\* C5: peek and has leave the whole cache state unchanged (count, head, tail,
\* every slot's prev/key/next, the key index and all values), whether the key
\* is present or absent.
C5_PeekHasFrame == call.op \in {PEEK, HAS} => SameCache

\* A peek found a key that is not the most recently used one.
C5_Witness ==
  /\ call.op = PEEK
  /\ Hit
  /\ result # call.arg
  /\ map[call.key][2] # tail

\* C6: a set of a key that is present leaves count and the set of live keys
\* unchanged, stores the new value, makes the key the most recently used one
\* and keeps the order and the values of all other keys.
C6_OverwriteKeeps ==
  (call.op = SET /\ Hit) =>
    /\ count = pre.count
    /\ DOMAIN map = DOMAIN pre.map
    /\ map[call.key][1] = call.arg
    /\ ChainKeys = Append(Without(PreChain, call.key), call.key)
    /\ map[call.key][2] = tail
    /\ \A k \in (DOMAIN pre.map) \ {call.key} : map[k][1] = pre.map[k][1]

\* The head of a full cache of several keys was overwritten with a new value.
C6_Witness ==
  /\ call.op = SET
  /\ Hit
  /\ pre.count = capacity
  /\ capacity > 1
  /\ pre.map[call.key][2] = pre.head
  /\ pre.map[call.key][1] # call.arg

\* C7: delete of a present key returns the value it held (not the fallback);
\* afterwards has is false and get and peek return the fallback, count is one
\* less, and every other live key is still present with its value.
C7_DeletePresent ==
  (call.op = DEL /\ Hit) =>
    /\ result = pre.map[call.key][1]
    /\ ~cacheHas(State, call.key, Undefined).ret
    /\ \A v \in Values : /\ cacheGet(State, call.key, v).ret = v
                         /\ cachePeek(State, call.key, v).ret = v
    /\ count = pre.count - 1
    /\ \A k \in (DOMAIN pre.map) \ {call.key} :
          k \in DOMAIN map /\ map[k][1] = pre.map[k][1]

\* A key was deleted from among several, and what came back is not the
\* fallback that was passed.
C7_Witness ==
  /\ call.op = DEL
  /\ Hit
  /\ result # call.arg
  /\ pre.count > 1

\* C8: delete of an absent key returns the fallback and leaves the cache
\* state unchanged: count, head, tail, membership, values and recency order.
C8_DeleteAbsent ==
  (call.op = DEL /\ ~Hit) =>
    /\ result = call.arg
    /\ SameCache
    /\ ChainKeys = PreChain

\* An absent key was deleted from a cache that holds keys, with a fallback.
C8_Witness ==
  /\ call.op = DEL
  /\ ~Hit
  /\ call.arg = 1
  /\ count > 0

\* C9: set(k, v) returns v, and a get, peek or has issued right after it
\* returns v (true for has): the key set is never removed by its own set.
C9_RoundTrip ==
  call.op = SET =>
    /\ result = call.arg
    /\ cacheHas(State, call.key, Undefined).ret
    /\ \A v \in Values : /\ cacheGet(State, call.key, v).ret = call.arg
                         /\ cachePeek(State, call.key, v).ret = call.arg

\* The key set was the eviction candidate of a full cache.
C9_Witness ==
  /\ call.op = SET
  /\ Hit
  /\ pre.count = capacity
  /\ pre.map[call.key][2] = pre.head
  /\ pre.map[call.key][1] # call.arg

\* C10 as stated: whenever a key was set within the last `capacity` set calls
\* and not deleted since, the cache and the reference Map show the same value
\* for it, for any sequence of get/peek/set/has/delete calls.
C10_AsStated ==
  \A k \in Range(lruMusts) :
     SlowHas(k) =>
       /\ cacheHas(State, k, Undefined).ret
       /\ cachePeek(State, k, Undefined).ret = SlowPeek(k)

\* C10: whenever a key was set within the last `capacity` set calls, was not
\* deleted since and no get has found another key since that set, the cache
\* and the reference Map show the same value for it.
C10_RecentKeysAgree ==
  \A k \in quiet :
     /\ k \in Range(lruMusts)
     /\ SlowHas(k)
     /\ cacheHas(State, k, Undefined).ret
     /\ cachePeek(State, k, Undefined).ret = SlowPeek(k)
     /\ cacheGet(State, k, Undefined).ret = SlowPeek(k)

\* The oldest key of a full window is still cached although the cache is full
\* and the reference Map holds a key the cache has evicted.
C10_Witness ==
  /\ capacity > 1
  /\ Len(lruMusts) = capacity
  /\ lruMusts[1] \in quiet
  /\ lruMusts[1] \notin Range(Tail(lruMusts))
  /\ count = capacity
  /\ \E k \in DOMAIN ref : k \notin DOMAIN map

\* C11: in a run of peek, set, has and delete calls only, for every key among
\* the keys of the last `capacity` set calls a peek or has on the cache gives
\* what the unbounded Map gives, absent included when the key was deleted
\* since.
C11_FuzzAgrees ==
  \A k \in Range(lruMusts) :
     /\ cacheHas(State, k, Undefined).ret = SlowHas(k)
     /\ cachePeek(State, k, Undefined).ret = SlowPeek(k)

\* The window is full of distinct keys, one of them deleted since, and the
\* Map holds a key the cache has evicted.
C11_Witness ==
  /\ capacity > 1
  /\ Len(lruMusts) = capacity
  /\ Cardinality(Range(lruMusts)) = capacity
  /\ \E k \in Range(lruMusts) : ~SlowHas(k)
  /\ \E k \in DOMAIN ref : k \notin DOMAIN map

\* C12: starting from an empty cache, fresh or emptied by deletes, once
\* capacity + n distinct keys (n >= 1) have been set with no read in between,
\* exactly the first n keys are absent and the last `capacity` keys are
\* present with the values they were set to. (Before that, every key set so
\* far is present; once all are deleted the cache is empty again.)
C12_FillKeepsLast ==
  /\ (FillPos >= 1 /\ FillPos <= FillKeys) =>
       /\ \A k \in 0..(FillKeys - 1) :
             cacheHas(State, k, Undefined).ret
               <=> (k < FillPos /\ k >= FillPos - capacity)
       /\ DOMAIN map = {k \in 0..(FillPos - 1) : k >= FillPos - capacity}
       /\ \A k \in DOMAIN map :
             /\ k \in DOMAIN latest
             /\ \A v \in Values : cachePeek(State, k, v).ret = latest[k]
  /\ (FillPos = 0) => (DOMAIN map = {} /\ count = 0)

\* In the second round, after the deletes of the first, the largest cache has
\* been given two keys more than it holds.
C12_Witness ==
  /\ step > 2 * FillKeys
  /\ FillPos = FillKeys
  /\ capacity = MaxCap
  /\ call.op = SET
  /\ 0 \notin DOMAIN map
  /\ 1 \notin DOMAIN map
  /\ 2 \in DOMAIN map

\* The cache left by delete(k) on the present state, and what a set leaves
\* after it.
Emptied(k) == cacheDel(State, k, Undefined).st
Reentered(k, k2, v) == cacheSet(Emptied(k), k2, v).st

\* C13: with capacity 1, after any sequence of calls at most one key is
\* present, and it is the key of the last set unless that key was deleted
\* since; get of it returns its value and get of any other key, the key that
\* the last set evicted included, returns the fallback; deleting the present
\* key leaves an empty cache, and a set of any key on that cache makes that key
\* the one present.
C13_Singleton ==
  capacity = 1 =>
    /\ DOMAIN map = {k \in Range(lruMusts) : SlowHas(k)}
    /\ Cardinality(DOMAIN map) <= 1
    /\ count = Cardinality(DOMAIN map)
    /\ \A k \in 0..(FuzzKeys - 1) : \A v \in Values :
          cacheGet(State, k, v).ret
            = IF k \in Range(lruMusts) /\ SlowHas(k) THEN ref[k] ELSE v
    /\ \A k \in DOMAIN map :
          /\ DOMAIN Emptied(k).map = {}
          /\ Emptied(k).count = 0
          /\ \A k2 \in 0..(FuzzKeys - 1) : \A v \in Values :
                /\ DOMAIN Reentered(k, k2, v).map = {k2}
                /\ Reentered(k, k2, v).count = 1
                /\ cacheGet(Reentered(k, k2, v), k2, Undefined).ret = v

\* The one key of a capacity-1 cache was deleted after its set had evicted
\* another key, which the unbounded Map still holds.
C13_Witness ==
  /\ capacity = 1
  /\ Len(lruMusts) = 1
  /\ DOMAIN map = {}
  /\ count = 0
  /\ DOMAIN ref # {}

\* C14: has(k) is true iff k has an entry, that is iff k was set and neither
\* deleted nor evicted since, whatever the stored value: an entry whose value
\* is undefined, or equals the caller's fallback, is reported present, get,
\* peek and delete return the stored value and not the fallback, and the entry
\* counts towards capacity.
C14_HasIgnoresValue ==
  /\ \A k \in Keys :
        /\ cacheHas(State, k, Undefined).ret <=> k \in DOMAIN map
        /\ cacheHas(State, k, Undefined).ret <=> k \in Range(touched)
        /\ cacheHas(State, k, Undefined).ret <=> k \in DOMAIN latest
  /\ \A k \in DOMAIN latest : \A fallback \in Values :
        /\ cacheGet(State, k, fallback).ret = latest[k]
        /\ cachePeek(State, k, fallback).ret = latest[k]
        /\ cacheDel(State, k, fallback).ret = latest[k]
  /\ count = Cardinality(DOMAIN latest)
  /\ count <= capacity
  /\ (call.op = SET) => cacheHas(State, call.key, Undefined).ret
  /\ (call.op = DEL) => ~cacheHas(State, call.key, Undefined).ret
  /\ (call.op = HAS) => (result <=> Hit)
  /\ (call.op = SET /\ ~Hit /\ pre.count = capacity) =>
        Cardinality(Removed) = 1

\* A full cache in which a key is stored with the value undefined: the set of
\* a new key has evicted another key to make room, the undefined-valued entry
\* being counted.
C14_Witness ==
  /\ call.op = SET
  /\ ~Hit
  /\ pre.count = capacity
  /\ capacity > 1
  /\ \E k \in DOMAIN map : k # call.key /\ map[k][1] = Undefined
  /\ \E k \in DOMAIN map : map[k][1] # Undefined

\* A positive integer.
PositiveInteger(a) == a.kind = "number" /\ a.den = 1 /\ a.num > 0

\* C15 as stated: the constructor returns a cache only for a positive integer
\* capacity, every other value makes it throw and leaves no cache to call, and
\* the cache it returns for a positive integer has count 0 and no key.
C15_AsStated ==
  /\ made => PositiveInteger(given)
  /\ ~made => (call = NoCall /\ DOMAIN map = {})
  /\ (made /\ PositiveInteger(given)) =>
        (count = Cardinality(DOMAIN map) /\ (touched = <<>> => count = 0))

\* What the constructor does: it throws for every value of 'incapacity', and
\* returns a cache whenever three times the value is a positive array length.
C15_ThriceIsLength ==
  /\ made <=> (GreaterThanZero(given) /\ IsArrayLength(Times(given, 3)))
  /\ given \in {EmptyObject, Foo, Frac(201, 2), Num(-1), Num(0), NaN,
                Infinity, MinusInfinity} => ~made
  /\ PositiveInteger(given) => made

\* A cache made with capacity 1/3.
C15_Witness ==
  /\ made
  /\ given = Frac(1, 3)
  /\ count = 0

\* C16: on a constructed cache every call of get, peek, set, delete and has,
\* in every reachable state, the empty cache included, and for every key,
\* present or not, returns without throwing; a key that is absent is reported
\* by the fallback the caller gave (undefined when none was given), or by has
\* returning false, and a present key by its value.
C16_Total ==
  /\ \A k \in DOMAIN map : ~unlinkThrows(State, k)
  /\ \A k \in Keys : \A v \in Values :
        /\ cacheDel(State, k, v).ret # TypeError
        /\ k \notin DOMAIN map =>
              /\ cacheGet(State, k, v).ret = v
              /\ cachePeek(State, k, v).ret = v
              /\ cacheDel(State, k, v).ret = v
              /\ cacheHas(State, k, Undefined).ret = FALSE
  /\ call.op \in {GET, PEEK, DEL} =>
        /\ result # TypeError
        /\ result = IF Hit THEN pre.map[call.key][1] ELSE call.arg
  /\ call.op = SET => result = call.arg
  /\ call.op = HAS => result = Hit

\* A delete from a full cache of a key that is not in the last live slot, the
\* one path on which unlinkEntry reads an entry it was not handed.
C16_Witness ==
  /\ call.op = DEL
  /\ Hit
  /\ capacity > 1
  /\ pre.count = capacity
  /\ pre.map[call.key][2] # (pre.count - 1) * 3
  /\ result = pre.map[call.key][1]

\* C17 (I1): in every state between calls, each key of the map has an entry
\* whose index is that of a slot below count which holds that key, each slot
\* below count holds a key of the map whose entry points back at it, distinct
\* keys have distinct slots, and the map has exactly count keys.
C17_IndexMatchesSlots ==
  /\ \A k \in DOMAIN map :
        /\ map[k][2] >= 0
        /\ map[k][2] % 3 = 0
        /\ map[k][2] \div 3 < count
        /\ keys[map[k][2] + 1] = k
  /\ \A j \in 0..(count - 1) :
        /\ keys[3 * j + 1] \in DOMAIN map
        /\ map[keys[3 * j + 1]][2] = 3 * j
  /\ \A k1, k2 \in DOMAIN map : k1 # k2 => map[k1][2] # map[k2][2]
  /\ Cardinality(DOMAIN map) = count

\* A delete has moved the key of the last live slot into the slot it freed.
C17_Witness ==
  /\ call.op = DEL
  /\ Hit
  /\ count >= 1
  /\ \E k \in DOMAIN map :
        /\ map[k][2] # pre.map[k][2]
        /\ map[k][2] = pre.map[call.key][2]
        /\ pre.map[k][2] = count * 3

\* The slots of the list, head first, followed for one step more than count.
ChainSlots == Slots(keys, head, count + 1)
LiveSlots == {3 * j : j \in 0..(count - 1)}

\* C18 (I2): in every state between calls, following next from head ends
\* after exactly count slots, the last of them tail; the slots met are the
\* slots 0..count-1, each once; head has no prev and tail no next; prev is the
\* inverse of next; no slot is linked to itself and no link leaves the slots
\* below count.
C18_ChainShape ==
  /\ Len(ChainSlots) = count
  /\ Range(ChainSlots) = LiveSlots
  /\ count > 0 =>
        /\ ChainSlots[1] = head
        /\ ChainSlots[count] = tail
        /\ keys[head] = -1
        /\ keys[tail + 2] = -1
  /\ \A a \in LiveSlots :
        /\ keys[a] \in (LiveSlots \ {a}) \cup {-1}
        /\ keys[a + 2] \in (LiveSlots \ {a}) \cup {-1}
        /\ keys[a] = -1 <=> a = head
        /\ keys[a + 2] = -1 <=> a = tail
        /\ \A b \in LiveSlots : keys[a + 2] = b <=> keys[b] = a

\* A get has found a key in the middle of a list of three or more and moved
\* it to the end.
C18_Witness ==
  /\ call.op = GET
  /\ Hit
  /\ pre.count >= 3
  /\ pre.head # pre.map[call.key][2]
  /\ pre.tail # pre.map[call.key][2]
  /\ tail = map[call.key][2]

\* C19: in every state the keys read from head to tail are the live keys in
\* the order of their most recent set or successful get, the one used longest
\* ago at head and the one used last at tail; peek and has leave the order as
\* it was, and a delete, with the move of the last slot's key into the freed
\* slot, only takes its key out of it.
C19_ChainIsRecency ==
  /\ ChainKeys = touched
  /\ count > 0 =>
        /\ keys[head + 1] = touched[1]
        /\ keys[tail + 1] = touched[Len(touched)]
  /\ \A m, n \in 1..Len(touched) : m # n => touched[m] # touched[n]
  /\ call.op \in {PEEK, HAS} => ChainKeys = PreChain
  /\ (call.op = GET /\ ~Hit) => ChainKeys = PreChain
  /\ call.op = DEL => ChainKeys = Without(PreChain, call.key)
  /\ (call.op = SET \/ (call.op = GET /\ Hit)) =>
        /\ keys[tail + 1] = call.key
        /\ Without(ChainKeys, call.key) \in
              {Without(PreChain, call.key),
               Without(Without(PreChain, call.key), pre.keys[pre.head + 1])}

\* A delete has taken a key from the middle of the order and moved the key of
\* the last live slot into its slot.
C19_Witness ==
  /\ call.op = DEL
  /\ Hit
  /\ pre.count >= 3
  /\ pre.head # pre.map[call.key][2]
  /\ pre.tail # pre.map[call.key][2]
  /\ pre.map[call.key][2] # (pre.count - 1) * 3

\* C20 (I3): in every state between calls, count is 0 iff head and tail are
\* both -1; head is -1 iff tail is -1; and count = 1 implies head = tail.
C20_EmptyIffNoEnds ==
  /\ count = 0 <=> (head = -1 /\ tail = -1)
  /\ head = -1 <=> tail = -1
  /\ count = 1 => head = tail
  /\ count >= 0
  /\ pre.count = 0 <=> (pre.head = -1 /\ pre.tail = -1)
  /\ pre.head = -1 <=> pre.tail = -1
  /\ pre.count = 1 => pre.head = pre.tail

\* A delete has emptied a cache that held one key.
C20_Witness ==
  /\ call.op = DEL
  /\ Hit
  /\ pre.count = 1
  /\ pre.head = pre.tail
  /\ count = 0
  /\ head = -1

\* The slot index delete(k) frees, the last live slot before the call, and
\* the key in it.
FreedIndex == pre.map[call.key][2]
LastIndex == (pre.count - 1) * 3
MovedKey == pre.keys[LastIndex + 1]

\* C21: when delete(k) frees a slot that is not the last live slot, the key
\* of the last live slot is afterwards in the freed slot and its entry points
\* there, and every other remaining key keeps its slot; when the freed slot is
\* the last live slot no key changes slot. Either way the slots in use
\* afterwards are 0..count-1 for the new count.
C21_SwapToBoundary ==
  (call.op = DEL /\ Hit) =>
    /\ count = pre.count - 1
    /\ DOMAIN map = (DOMAIN pre.map) \ {call.key}
    /\ {map[k][2] : k \in DOMAIN map} = {3 * j : j \in 0..(count - 1)}
    /\ \A k \in DOMAIN map : keys[map[k][2] + 1] = k
    /\ FreedIndex # LastIndex =>
          /\ MovedKey \in DOMAIN map
          /\ pre.map[MovedKey][2] = LastIndex
          /\ map[MovedKey][2] = FreedIndex
          /\ keys[FreedIndex + 1] = MovedKey
          /\ \A k \in (DOMAIN map) \ {MovedKey} : map[k][2] = pre.map[k][2]
    /\ FreedIndex = LastIndex =>
          \A k \in DOMAIN map : map[k][2] = pre.map[k][2]

\* A delete from a cache of three keys has freed the first slot.
C21_Witness ==
  /\ call.op = DEL
  /\ Hit
  /\ pre.count = 3
  /\ FreedIndex = 0
  /\ map[MovedKey][2] = 0

\* The cases of a delete's compaction.
FreedIsHead == pre.head = FreedIndex
FreedIsTail == pre.tail = FreedIndex
MovedIsHead == FreedIndex # LastIndex /\ pre.head = LastIndex
MovedIsTail == FreedIndex # LastIndex /\ pre.tail = LastIndex
MovedIsNext == FreedIndex # LastIndex /\ pre.keys[FreedIndex + 2] = LastIndex
MovedIsPrev == FreedIndex # LastIndex /\ pre.keys[FreedIndex] = LastIndex

\* C22: after delete(k) the keys read from head to tail are those read before
\* it with k taken out, and the keys read from tail to head are the same in
\* reverse, whichever slot was freed and whichever was moved into it.
C22_DeleteKeepsOrder ==
  (call.op = DEL /\ Hit) =>
    /\ ChainKeys = Without(PreChain, call.key)
    /\ ChainBack(keys, tail, count) = Reverse(Without(PreChain, call.key))
    /\ Len(ChainKeys) = pre.count - 1
    /\ count > 0 =>
          /\ keys[head] = -1
          /\ keys[tail + 2] = -1

\* The freed slot was the head and the slot moved into it was its next.
C22_Witness ==
  /\ call.op = DEL
  /\ Hit
  /\ pre.count >= 3
  /\ FreedIsHead
  /\ MovedIsNext
  /\ ChainKeys = Without(PreChain, call.key)


\* C23: a get that finds its key leaves count, the live keys, every value and
\* every key's slot as they were, and the key field of every slot; the key is
\* then at the tail and the other keys are in the order they were in. A get
\* of an absent key changes nothing and returns the fallback.
C23_GetFrame ==
  /\ (call.op = GET /\ Hit) =>
        /\ count = pre.count
        /\ map = pre.map
        /\ \A j \in 0..(capacity - 1) : keys[3 * j + 1] = pre.keys[3 * j + 1]
        /\ tail = pre.map[call.key][2]
        /\ keys[tail + 1] = call.key
        /\ ChainKeys = Append(Without(PreChain, call.key), call.key)
        /\ ChainBack(keys, tail, count) = Reverse(ChainKeys)
        /\ result = pre.map[call.key][1]
  /\ (call.op = GET /\ ~Hit) =>
        /\ SameCache
        /\ result = call.arg

\* A get has found the key that was already at the tail of a list of two or
\* more, with a fallback that differs from the stored value.
C23_Witness ==
  /\ call.op = GET
  /\ Hit
  /\ pre.count >= 2
  /\ pre.tail = pre.map[call.key][2]
  /\ call.arg # result

\* The key at the head before the call.
HeadKey == pre.keys[pre.head + 1]

\* C24: a set of an absent key on a full cache stores the key in the slot
\* that held the head key, removes the head key from the map, leaves count at
\* capacity and moves no other key; on a cache that is not full the key takes
\* slot index count, count grows by exactly one, and nothing is removed.
C24_EvictionReusesSlot ==
  (call.op = SET /\ ~Hit) =>
    /\ pre.count = capacity =>
          /\ map[call.key][2] = pre.head
          /\ keys[pre.head + 1] = call.key
          /\ HeadKey \notin DOMAIN map
          /\ DOMAIN map = ((DOMAIN pre.map) \ {HeadKey}) \cup {call.key}
          /\ count = capacity
    /\ pre.count < capacity =>
          /\ map[call.key][2] = pre.count * 3
          /\ keys[pre.count * 3 + 1] = call.key
          /\ DOMAIN map = (DOMAIN pre.map) \cup {call.key}
          /\ count = pre.count + 1
    /\ \A k \in (DOMAIN map) \ {call.key} : map[k] = pre.map[k]
    /\ \A j \in 0..(capacity - 1) :
          3 * j # map[call.key][2] => keys[3 * j + 1] = pre.keys[3 * j + 1]

\* A set on a full cache has reused a head slot that was not slot 0.
C24_Witness ==
  /\ call.op = SET
  /\ ~Hit
  /\ pre.count = capacity
  /\ pre.head > 0
  /\ map[call.key][2] = pre.head

\* A set of an absent key on a full cache, which evicts.
Evicting == call.op = SET /\ ~Hit /\ pre.count = capacity

\* What a release with a swap leaves: the key of the last live slot is in the
\* freed slot, and its entry points there.
SwappedInto(freed) ==
  /\ MovedKey \in DOMAIN map
  /\ map[MovedKey][2] = freed
  /\ keys[freed + 1] = MovedKey

\* C25 as stated: eviction releases the head slot the way delete releases a
\* slot: count is decremented and the entry of the last live slot is swapped
\* into the freed slot (the new key then taking the slot at the boundary).
C25_AsStated ==
  /\ (call.op = DEL /\ Hit /\ FreedIndex # LastIndex) => SwappedInto(FreedIndex)
  /\ (Evicting /\ pre.head # LastIndex) =>
        /\ SwappedInto(pre.head)
        /\ map[call.key][2] = LastIndex

\* C25, amended: only delete decrements count and swaps the entry of the last
\* live slot into the freed slot; an eviction leaves count at capacity, hands
\* the head slot to the new key as it is, and moves no other entry.
C25_ReleaseOnDeleteOnly ==
  /\ (call.op = DEL /\ Hit) =>
        /\ count = pre.count - 1
        /\ FreedIndex # LastIndex => SwappedInto(FreedIndex)
  /\ Evicting =>
        /\ count = pre.count
        /\ map[call.key][2] = pre.head
        /\ \A k \in (DOMAIN map) \ {call.key} : map[k][2] = pre.map[k][2]
        /\ pre.head # LastIndex => ~SwappedInto(pre.head)

\* An eviction whose head slot was not the last live slot.
C25_Witness ==
  /\ Evicting
  /\ pre.head # LastIndex
  /\ map[MovedKey][2] = LastIndex
  /\ map[call.key][2] = pre.head

\* The slots that are not in use: those with index count..capacity-1.
FreeSlots == {3 * j : j \in count..(capacity - 1)}

\* C26 as stated: between calls no free slot holds a key in its key field.
C26_AsStated ==
  \A a \in FreeSlots : keys[a + 1] = Undefined

\* A delete of the key in the last live slot: unlinkEntry skips the block that
\* ends with keys[nextFreeIndex + 1] = undefined, and the slot, now free, still
\* holds the deleted key.
C26_Witness ==
  /\ call.op = DEL
  /\ Hit
  /\ FreedIndex = LastIndex
  /\ FreedIndex \in FreeSlots
  /\ keys[FreedIndex + 1] = call.key
  /\ call.key \notin DOMAIN map

\* ------------------------------------------- calls taken statement by statement
\* An array read outside the array gives undefined, and so does arithmetic on
\* undefined used as an index.
At(a, j) == IF j \in DOMAIN a THEN a[j] ELSE Undefined
Idx(x, d) == IF x = Undefined THEN Undefined ELSE x + d

\* One statement of usedEntry, run by a caller whose locals are l, on the
\* closure state s: the state and the locals after it.
usedEntryStep(s, l) ==
  CASE l.pc = "u_i" ->
         [st |-> s, loc |-> [l EXCEPT !.pc = "u_prev", !.i = s.map[l.key][2]]]
    [] l.pc = "u_prev" ->
         [st |-> s, loc |-> [l EXCEPT !.pc = "u_next", !.prev = At(s.keys, l.i)]]
    [] l.pc = "u_next" ->
         [st |-> s,
          loc |-> [l EXCEPT !.pc = "u_head", !.next = At(s.keys, Idx(l.i, 2))]]
    [] l.pc = "u_head" ->
         [st |-> IF s.head = l.i THEN [s EXCEPT !.head = l.next] ELSE s,
          loc |-> [l EXCEPT !.pc = "u_tail"]]
    [] l.pc = "u_tail" ->
         [st |-> IF s.tail = l.i THEN [s EXCEPT !.tail = l.prev] ELSE s,
          loc |-> [l EXCEPT !.pc = "u_prevnext"]]
    [] l.pc = "u_prevnext" ->
         [st |-> IF Ge0(l.prev)
                 THEN [s EXCEPT !.keys = Put(s.keys, l.prev + 2, l.next)] ELSE s,
          loc |-> [l EXCEPT !.pc = "u_nextprev"]]
    [] l.pc = "u_nextprev" ->
         [st |-> IF Ge0(l.next)
                 THEN [s EXCEPT !.keys = Put(s.keys, l.next, l.prev)] ELSE s,
          loc |-> [l EXCEPT !.pc = "u_setprev"]]
    [] l.pc = "u_setprev" ->
         [st |-> [s EXCEPT !.keys = Put(s.keys, l.i, s.tail)],
          loc |-> [l EXCEPT !.pc = "u_setnext"]]
    [] l.pc = "u_setnext" ->
         [st |-> [s EXCEPT !.keys = Put(s.keys, Idx(l.i, 2), -1)],
          loc |-> [l EXCEPT !.pc = "u_link"]]
    [] l.pc = "u_link" ->
         [st |-> IF Lt0(s.head) THEN [s EXCEPT !.head = l.i]
                 ELSE [s EXCEPT !.keys = Put(s.keys, Idx(s.tail, 2), l.i)],
          loc |-> [l EXCEPT !.pc = "u_settail"]]
    [] l.pc = "u_settail" ->
         [st |-> [s EXCEPT !.tail = l.i], loc |-> Idle]

\* One statement of unlinkEntry, and after it the map.delete of cacheDel.
unlinkEntryStep(s, l) ==
  CASE l.pc = "x_count" ->
         [st |-> [s EXCEPT !.count = s.count - 1],
          loc |-> [l EXCEPT !.pc = "x_free"]]
    [] l.pc = "x_free" ->
         [st |-> s, loc |-> [l EXCEPT !.pc = "x_i", !.free = s.count * 3]]
    [] l.pc = "x_i" ->
         [st |-> s, loc |-> [l EXCEPT !.pc = "x_prev", !.i = s.map[l.key][2]]]
    [] l.pc = "x_prev" ->
         [st |-> s, loc |-> [l EXCEPT !.pc = "x_next", !.prev = At(s.keys, l.i)]]
    [] l.pc = "x_next" ->
         [st |-> s,
          loc |-> [l EXCEPT !.pc = "x_prevnext", !.next = At(s.keys, Idx(l.i, 2))]]
    [] l.pc = "x_prevnext" ->
         [st |-> IF Ge0(l.prev)
                 THEN [s EXCEPT !.keys = Put(s.keys, l.prev + 2, l.next)]
                 ELSE [s EXCEPT !.head = l.next],
          loc |-> [l EXCEPT !.pc = "x_nextprev"]]
    [] l.pc = "x_nextprev" ->
         [st |-> IF Ge0(l.next)
                 THEN [s EXCEPT !.keys = Put(s.keys, l.next, l.prev)]
                 ELSE [s EXCEPT !.tail = l.prev],
          loc |-> [l EXCEPT !.pc = "x_clearprev"]]
    [] l.pc = "x_clearprev" ->
         [st |-> [s EXCEPT !.keys = Put(s.keys, l.i, -1)],
          loc |-> [l EXCEPT !.pc = "x_clearnext"]]
    [] l.pc = "x_clearnext" ->
         [st |-> [s EXCEPT !.keys = Put(s.keys, Idx(l.i, 2), -1)],
          loc |-> [l EXCEPT !.pc = "x_shifted"]]
    [] l.pc = "x_shifted" ->
         IF l.i = l.free
         THEN [st |-> s, loc |-> [l EXCEPT !.pc = "x_entry"]]
         ELSE IF At(s.keys, l.free + 1) \notin DOMAIN s.map
         THEN \* TypeError: the call ends here
              [st |-> s, loc |-> Idle]
         ELSE [st |-> [s EXCEPT !.map[At(s.keys, l.free + 1)][2] = l.i],
               loc |-> [l EXCEPT !.pc = "x_sprev"]]
    [] l.pc = "x_sprev" ->
         [st |-> s, loc |-> [l EXCEPT !.pc = "x_snext", !.sPrev = At(s.keys, l.free)]]
    [] l.pc = "x_snext" ->
         [st |-> s,
          loc |-> [l EXCEPT !.pc = "x_moveprev", !.sNext = At(s.keys, l.free + 2)]]
    [] l.pc = "x_moveprev" ->
         [st |-> [s EXCEPT !.keys = Put(s.keys, l.i, l.sPrev)],
          loc |-> [l EXCEPT !.pc = "x_movekey"]]
    [] l.pc = "x_movekey" ->
         [st |-> [s EXCEPT !.keys = Put(s.keys, Idx(l.i, 1), At(s.keys, l.free + 1))],
          loc |-> [l EXCEPT !.pc = "x_movenext"]]
    [] l.pc = "x_movenext" ->
         [st |-> [s EXCEPT !.keys = Put(s.keys, Idx(l.i, 2), l.sNext)],
          loc |-> [l EXCEPT !.pc = "x_fixprev"]]
    [] l.pc = "x_fixprev" ->
         [st |-> IF Ge0(l.sPrev)
                 THEN [s EXCEPT !.keys = Put(s.keys, l.sPrev + 2, l.i)]
                 ELSE [s EXCEPT !.head = l.i],
          loc |-> [l EXCEPT !.pc = "x_fixnext"]]
    [] l.pc = "x_fixnext" ->
         [st |-> IF Ge0(l.sNext)
                 THEN [s EXCEPT !.keys = Put(s.keys, l.sNext, l.i)]
                 ELSE [s EXCEPT !.tail = l.i],
          loc |-> [l EXCEPT !.pc = "x_release"]]
    [] l.pc = "x_release" ->
         [st |-> [s EXCEPT !.keys = Put(s.keys, l.free + 1, Undefined)],
          loc |-> [l EXCEPT !.pc = "x_entry"]]
    [] l.pc = "x_entry" ->
         [st |-> [s EXCEPT !.map[l.key][2] = -1],
          loc |-> [l EXCEPT !.pc = "d_delete"]]
    [] l.pc = "d_delete" ->
         [st |-> [s EXCEPT !.map = MapDelete(s.map, l.key)], loc |-> Idle]

UsedPcs == {"u_i", "u_prev", "u_next", "u_head", "u_tail", "u_prevnext",
            "u_nextprev", "u_setprev", "u_setnext", "u_link", "u_settail"}

AllIdle == \A t \in Callers : running[t] = Idle
OthersIdle(t) == \A u \in Callers \ {t} : running[u] = Idle

\* I1 and I2 together.
Integrity == C17_IndexMatchesSlots /\ C18_ChainShape

\* cacheGet(key) and cacheDel(key) up to and including `map.get(key)`: a key
\* with no entry ends the call at once. No two calls in progress share a key,
\* and a run is followed up to the end of the first two calls that overlap.
EnterCall(t, key, first) ==
  /\ ~raced
  /\ running[t] = Idle
  /\ \A u \in Callers : running[u].key # key
  /\ running' = [running EXCEPT ![t] =
                   IF key \in DOMAIN map THEN [Idle EXCEPT !.pc = first, !.key = key]
                   ELSE Idle]
  /\ raced' = (raced \/ ~OthersIdle(t))
  /\ UNCHANGED <<capacity, cache, record, ref, lruMusts, quiet, script, given, made>>
  /\ UNCHANGED ring

BeginGet == \E t \in Callers, k \in 0..(RaceKeys - 1) : EnterCall(t, k, "u_i")
BeginDelete == \E t \in Callers, k \in 0..(RaceKeys - 1) : EnterCall(t, k, "x_count")

\* The caller's next statement.
Statement ==
  \E t \in Callers :
     /\ running[t] # Idle
     /\ \E r \in {IF running[t].pc \in UsedPcs
                  THEN usedEntryStep(State, running[t])
                  ELSE unlinkEntryStep(State, running[t])} :
           /\ keys' = r.st.keys
           /\ map' = r.st.map
           /\ head' = r.st.head
           /\ tail' = r.st.tail
           /\ count' = r.st.count
           /\ running' = [running EXCEPT ![t] = r.loc]
     /\ raced' = (raced \/ ~OthersIdle(t))
     /\ UNCHANGED <<capacity, record, ref, lruMusts, quiet, script, given, made>>
     /\ UNCHANGED ring

\* A set, run to completion while no other call is in progress.
WholeSet ==
  /\ ~raced
  /\ AllIdle
  /\ \E k \in 0..(RaceKeys - 1) : \E r \in {cacheSet(State, k, 1)} : Become(r.st)
  /\ UNCHANGED <<record, ref, lruMusts, quiet, script>>

NextRace == BeginGet \/ BeginDelete \/ Statement \/ WholeSet

InitRace == (\E c \in 1..RaceCap : constructor(c)) /\ Fresh

SpecRace == InitRace /\ [][NextRace]_vars

\* C27: while every call runs to completion before the next begins, I1 and
\* I2 hold whenever no call is in progress; when the statements of two calls
\* are interleaved a state between calls that breaks them can be reached.
C27_SerializedKeepsIntegrity ==
  (AllIdle /\ ~raced) => Integrity

\* Two calls have overlapped and both have ended, and I1 or I2 is broken.
C27_Witness ==
  /\ raced
  /\ AllIdle
  /\ ~Integrity

\* --------------------------------------------- the two variants side by side
\* The same call on a cache of each kind, made with the same capacity: `linked`
\* is the action of the linked-list cache and `circular` that of the circular
\* buffer.
BothCall(key, linked, circular, value) ==
  \E r \in {lru(State, key, linked, value)} :
     /\ keys' = r.st.keys
     /\ map' = r.st.map
     /\ head' = r.st.head
     /\ tail' = r.st.tail
     /\ count' = r.st.count
     /\ result' = r.ret
     /\ call' = [op |-> linked, key |-> key, arg |-> value]
     /\ ring' = ringLru(ring, key, circular, value)
     /\ UNCHANGED <<capacity, pre, touched, latest, ref, lruMusts, quiet, script,
                    given, made, running, raced>>

\* A read that refreshes nothing: peek on the linked list, get on the buffer.
BothRead == \E k \in 0..(FuzzKeys - 1), v \in Values : BothCall(k, PEEK, GET, v)
BothSet == \E k \in 0..(FuzzKeys - 1), v \in Values : BothCall(k, SET, SET, v)
BothDelete == \E k \in 0..(FuzzKeys - 1), v \in Values : BothCall(k, DEL, DEL, v)
BothHas == \E k \in 0..(FuzzKeys - 1) : BothCall(k, HAS, HAS, Undefined)

NextBoth == BothRead \/ BothSet \/ BothDelete \/ BothHas

SpecBoth == InitFuzz /\ [][NextBoth]_vars

\* C28 as stated: after every call of a run of sets, deletes, has and
\* non-refreshing reads, the two variants have returned the same result.
C28_AsStated ==
  result = ring.ret

\* The linked list has a key that the circular buffer has lost, and has says
\* so.
C28_Witness ==
  /\ call.op = HAS
  /\ result = TRUE
  /\ ring.ret = FALSE
  /\ Cardinality(DOMAIN ring.map) < Cardinality(DOMAIN map)

\* ------------------------------------------------- the circular buffer alone
\* The last call made on the circular buffer is recorded in call.
RingCall(key, action, value) ==
  /\ ring' = ringLru(ring, key, action, value)
  /\ call' = [op |-> action, key |-> key, arg |-> value]
  /\ UNCHANGED <<capacity, cache, result, pre, touched, latest, ref, lruMusts,
                 quiet, script, given, made, running, raced>>

RingGet == \E k \in Keys, v \in Values : RingCall(k, GET, v)
RingSet == \E k \in Keys, v \in Values : RingCall(k, SET, v)
RingDelete == \E k \in Keys, v \in Values : RingCall(k, DEL, v)
RingHas == \E k \in Keys : RingCall(k, HAS, Undefined)

NextRing == RingGet \/ RingSet \/ RingDelete \/ RingHas

SpecRing == Init /\ [][NextRing]_vars

\* The cells of the window: count cells from pos on, around the end.
Window == {(ring.pos + j) % ring.capacity : j \in 0..(ring.count - 1)}

\* C29: after every call on the circular buffer, pos is in 0..capacity-1 and
\* count in 0..capacity; each key of the map is stored in the cell its entry
\* names, and that cell is in the window; each cell of the window holds a hole
\* or a key of the map; no two keys share a cell; so the map has at most
\* capacity keys.
C29_RingIntegrity ==
  /\ ring.pos \in 0..(ring.capacity - 1)
  /\ ring.count \in 0..ring.capacity
  /\ \A k \in DOMAIN ring.map :
        /\ ring.map[k][2] \in Window
        /\ ring.keys[ring.map[k][2]] = k
  /\ \A a \in Window : ring.keys[a] = Hole \/ ring.keys[a] \in DOMAIN ring.map
  /\ \A k1, k2 \in DOMAIN ring.map : k1 # k2 => ring.map[k1][2] # ring.map[k2][2]
  /\ Cardinality(DOMAIN ring.map) <= ring.capacity

\* A set on a full window that has wrapped around and has a hole in it.
C29_Witness ==
  /\ call.op = SET
  /\ ring.count = ring.capacity
  /\ ring.pos > 0
  /\ \E a \in Window : ring.keys[a] = Hole
  /\ Cardinality(DOMAIN ring.map) >= 2

\* C30 as stated: after every call on the circular buffer, if the map has a
\* key then the cell at pos holds a key of the map, the one that was set
\* longest ago, and no hole; if the map is empty then count and pos are 0.
C30_AsStated ==
  /\ DOMAIN ring.map # {} =>
        /\ ring.keys[ring.pos] # Hole
        /\ ring.keys[ring.pos] \in DOMAIN ring.map
        /\ ring.map[ring.keys[ring.pos]][2] = ring.pos
  /\ DOMAIN ring.map = {} => (ring.count = 0 /\ ring.pos = 0)

\* A delete of the oldest key has left a hole at pos while a newer key is in
\* the map.
C30_Witness ==
  /\ call.op = DEL
  /\ DOMAIN ring.map # {}
  /\ ring.keys[ring.pos] = Hole
  /\ ring.count > Cardinality(DOMAIN ring.map)

\* --------------------------------------- the fuzz test of the circular buffer
RingFuzzCap == 4
RingFuzzKeys == 3

\* The window of the fuzz test of lib/lru-cache.js: the keys of the last
\* capacity / 2 set calls, the call being made included.
HalfMusts(key, action) ==
  lruMusts' = IF action = SET
              THEN (IF 2 * Len(lruMusts) >= capacity THEN Tail(lruMusts)
                    ELSE lruMusts) \o <<key>>
              ELSE lruMusts

\* One step of the fuzz test: the window, the call on the cache and the same
\* call on the reference Map; call and result record what the cache was
\* asked and what it gave.
RingFuzzCall(key, action, value) ==
  \E r \in {ringLru(ring, key, action, value)} :
     /\ ring' = r
     /\ result' = r.ret
     /\ call' = [op |-> action, key |-> key, arg |-> value]
     /\ HalfMusts(key, action)
     /\ Refer(key, action, value)
     /\ UNCHANGED <<capacity, cache, pre, touched, latest, quiet, script, given,
                    made, running, raced>>

RingFuzzGet == \E k \in 0..(RingFuzzKeys - 1) : RingFuzzCall(k, GET, Undefined)
RingFuzzSet ==
  \E k \in 0..(RingFuzzKeys - 1), v \in Values : RingFuzzCall(k, SET, v)
RingFuzzHas == \E k \in 0..(RingFuzzKeys - 1) : RingFuzzCall(k, HAS, Undefined)
RingFuzzDelete ==
  \E k \in 0..(RingFuzzKeys - 1) : RingFuzzCall(k, DEL, Undefined)

NextRingFuzz == RingFuzzGet \/ RingFuzzSet \/ RingFuzzHas \/ RingFuzzDelete

InitRingFuzz == (\E c \in 1..RingFuzzCap : constructor(c)) /\ Fresh

SpecRingFuzz == InitRingFuzz /\ [][NextRingFuzz]_vars

\* `want` of the step: what SlowCache gave for the same get or has.
Want == IF call.op = GET THEN SlowPeek(call.key) ELSE SlowHas(call.key)

\* C31: in a run of get, set, has and delete calls on the circular buffer,
\* whenever the key of a get or has call is among the keys of the last
\* capacity / 2 set calls, the cache gives what the unbounded Map gives for the
\* same calls; and every key of that window that the Map holds is still in the
\* cache with the value last set, whatever holes deletes and overwrites left.
C31_RingFuzzAgrees ==
  /\ (call # NoCall /\ call.op \in {GET, HAS} /\ call.key \in Range(lruMusts))
        => result = Want
  /\ \A k \in Range(lruMusts) :
        SlowHas(k) => (k \in DOMAIN ring.map /\ ring.map[k][1] = ref[k])

\* A get or has of the oldest key of a full window finds it, although the
\* window of the buffer is full with a hole in it and the Map holds a key the
\* buffer has evicted.
C31_Witness ==
  /\ call # NoCall
  /\ call.op \in {GET, HAS}
  /\ ring.capacity >= 3
  /\ 2 * Len(lruMusts) >= capacity
  /\ call.key = lruMusts[1]
  /\ call.key \notin Range(Tail(lruMusts))
  /\ SlowHas(call.key)
  /\ ring.count = ring.capacity
  /\ \E a \in Window : ring.keys[a] = Hole
  /\ \E k \in DOMAIN ref : k \notin DOMAIN ring.map

====
